---------------------------- MODULE Spec2Model ----------------------------
(***************************************************************************)
(* A model of rsformat's src/lib.rs: format() scans the hunk pairs of a    *)
(* diff, groups consecutive destination hunks per file and runs rustfmt    *)
(* once per group (format_now), waiting for the child and mapping a        *)
(* failure to an error (await_child).                                      *)
(*                                                                         *)
(* Text (messages, the standard error of the child) is a sequence of       *)
(* one-character strings.  usize is modelled as WordBits bits wide, with   *)
(* the wrapping addition of a build without overflow checks.               *)
(***************************************************************************)
EXTENDS Integers, Sequences, FiniteSets, TLC

(* ------------------------------ bounds --------------------------------- *)

\* Longest input slice `diffs`.
MaxHunks == 3
\* Longest diagnostic text the tool writes to its standard error.
MaxErrLen == 4
\* Capacity of the pipe buffer of the kernel, in characters.
PipeCap == 3
\* Width of usize in bits.
WordBits == 4

Word == 2 ^ WordBits
MaxWord == Word - 1

(* ------------------------------ inputs --------------------------------- *)

Files == {"a.rs", "b.rs"}

\* (line, count) of the destination hunks: an ordinary hunk and one at the
\* top of the word.
Shapes == {<<10, 3>>, <<MaxWord, 1>>}

Hunks == {[file |-> f, line |-> s[1], count |-> s[2]] : f \in Files, s \in Shapes}

\* The source side of a pair; format() binds it to `_`.
SrcHunks == {[file |-> "a.rs", line |-> 1, count |-> 1]}

Pairs == {<<s, d>> : s \in SrcHunks, d \in Hunks}

\* Source sides that differ in file, line and count.
SrcSides == SrcHunks \cup {[file |-> "b.rs", line |-> MaxWord, count |-> 3]}

\* Pairs with either source side.
PairsSrc == {<<s, [file |-> f, line |-> 10, count |-> 3]>> : s \in SrcSides, f \in Files}

RECURSIVE SeqsUpTo(_, _)
SeqsUpTo(S, n) ==
  IF n = 0 THEN {<<>>}
  ELSE LET shorter == SeqsUpTo(S, n - 1)
       IN  shorter \cup {Append(q, x) : q \in {r \in shorter : Len(r) = n - 1}, x \in S}

Inputs == SeqsUpTo(Pairs, MaxHunks)

InputsSrc == SeqsUpTo(PairsSrc, MaxHunks)

\* What the tool may write to standard error.
ErrChars == {"x", "y", " ", "\n"}
StderrTexts == SeqsUpTo(ErrChars, MaxErrLen)

\* Errors of the process-spawning layer.
SpawnErrors == {"NotFound", "PermissionDenied"}
WaitErrors == {"ECHILD"}

(* ------------------------------ text ----------------------------------- *)

RUSTFMT == <<"r", "u", "s", "t", "f", "m", "t">>

\* char::is_whitespace, on the characters of the model.
IsWhitespace(c) == c \in {" ", "\n", "\t", "\r"}

\* read_to_string in place of read_line.
ReadLineAll(s) == s

\* BufRead::read_line on a fresh String: everything up to and including the
\* first newline, or up to end-of-file.
RECURSIVE ReadLine(_)
ReadLine(s) ==
  IF s = <<>> THEN <<>>
  ELSE IF Head(s) = "\n" THEN <<"\n">>
  ELSE <<Head(s)>> \o ReadLine(Tail(s))

RECURSIVE TrimStart(_)
TrimStart(s) ==
  IF s # <<>> /\ IsWhitespace(Head(s)) THEN TrimStart(Tail(s)) ELSE s

RECURSIVE TrimEnd(_)
TrimEnd(s) ==
  IF s # <<>> /\ IsWhitespace(s[Len(s)]) THEN TrimEnd(SubSeq(s, 1, Len(s) - 1)) ELSE s

\* str::trim
Trim(s) == TrimEnd(TrimStart(s))

\* The grave accent (U+0060), which a string of the model cannot hold.
Backtick == "U+0060"

\* format!("process {}{}{} failed", program), the braces between two grave
\* accents.
FailedText(program) ==
  <<"p", "r", "o", "c", "e", "s", "s", " ", Backtick>> \o program
    \o <<Backtick, " ", "f", "a", "i", "l", "e", "d">>

\* The separator without its space.
WithLineNoSpace(error, line) == error \o <<":">> \o line

\* format!("{error}: {line}")
WithLine(error, line) == error \o <<":", " ">> \o line

(* ------------------------------ JSON ----------------------------------- *)

\* JSON text is a sequence of tokens: a punctuation character, a decimal
\* digit, or the content of a string between two quote tokens.  The paths
\* and keys of the model hold no character that JSON escapes.
Quote == "\""

DigitChars == <<"0", "1", "2", "3", "4", "5", "6", "7", "8", "9">>

\* A usize as serde_json writes it: decimal digits, no sign, no leading zero.
RECURSIVE Decimal(_)
Decimal(n) ==
  IF n < 10 THEN <<DigitChars[n + 1]>>
  ELSE Decimal(n \div 10) \o <<DigitChars[(n % 10) + 1]>>

\* A JSON string.
JsonString(str) == <<Quote, str, Quote>>

\* The tuple with the end before the start.
SerializeRangeSwapped(d) ==
  <<"[">> \o Decimal(d.end) \o <<",">> \o Decimal(d.start) \o <<"]">>

\* serialize_range: a tuple of two elements, range.start() then range.end().
SerializeRange(d) ==
  <<"[">> \o Decimal(d.start) \o <<",">> \o Decimal(d.end) \o <<"]">>

\* #[derive(Serialize)] of FormatDescriptor: the fields in declaration order
\* under their serde names.
SerializeDescriptor(d) ==
  <<"{">> \o JsonString("file") \o <<":">> \o JsonString(d.file) \o <<",">>
    \o JsonString("range") \o <<":">> \o SerializeRange(d) \o <<"}">>

RECURSIVE SerializeElements(_)
SerializeElements(ds) ==
  IF ds = <<>> THEN <<>>
  ELSE IF Len(ds) = 1 THEN SerializeDescriptor(ds[1])
  ELSE SerializeDescriptor(ds[1]) \o <<",">> \o SerializeElements(Tail(ds))

\* serde_json::to_string of the slice of descriptors.
ToJson(ds) == <<"[">> \o SerializeElements(ds) \o <<"]">>

\* The arguments of the Command, after the program name.
Argv(file, json) == <<"--unstable-features", file, "--file-lines", json>>

\* A call of format_now: its arguments and the command line it builds.
FormatNowCall(file, descrs) ==
  [file |-> file, descrs |-> descrs, argv |-> Argv(file, ToJson(descrs))]

(* ------------------------------ state ---------------------------------- *)

VARIABLES
  diffs,      \* the argument of format()
  pc,         \* where format() is: "loop", "spawn", "await", "arm", "final", "done"
  i,          \* index of the pair the for loop takes next
  last_dst,   \* Option<String>
  descr,      \* Vec<FormatDescriptor>
  ret,        \* where the running format_now was called from: "arm" or "final"
  calls,      \* the format_now calls made so far: [file, descrs, argv]
  emitted,    \* every FormatDescriptor built so far, in order
  children,   \* the processes launched so far
  out,        \* what the running child has still to write
  pipe,       \* content of the standard-error pipe of the running child
  result,     \* what format() returned
  oserr,      \* the error the operating system reported last
  diag        \* what await_child found when it read the pipe

vars == <<diffs, pc, i, last_dst, descr, ret, calls, emitted, children, out,
          pipe, result, oserr, diag>>

None == "None"

NoResult == [tag |-> "none", kind |-> "", code |-> "", msg |-> <<>>]
Ok == [tag |-> "ok", kind |-> "", code |-> "", msg |-> <<>>]
\* An io::Error of the operating system, passed on by `?`.
OsError(kind, code) == [tag |-> "err", kind |-> kind, code |-> code, msg |-> <<>>]
\* Error::other(msg)
OtherError(msg) == [tag |-> "err", kind |-> "other", code |-> "", msg |-> msg]

NoDiag == [read |-> "none", text |-> <<>>]

\* The source side taken for the destination side.
DstOfSource == diffs[i][1]

\* The pair the for loop is at, and its destination side.
Dst == diffs[i][2]

\* The guard without the comparison of the files.
NeedFlushAlways(last, file) == last # None

\* The guard of the first match arm: Some(prev_dst) if prev_dst != *dst.file
NeedFlush(last, file) == last # None /\ last # file

\* A range that ends on the last line of the hunk.
MkDescrShort(dst) ==
  [file |-> dst.file, start |-> dst.line, end |-> (dst.line + dst.count - 1) % Word]

\* FormatDescriptor { file: &dst.file, range: dst.line..=dst.line + dst.count }
\* in usize arithmetic.
MkDescr(dst) ==
  [file |-> dst.file, start |-> dst.line, end |-> (dst.line + dst.count) % Word]

\* The cursor is not moved to the new file.
ArmLastKept(last, file) == last

\* last_dst = Some(dst.file.to_string()) in the first match arm.
ArmLast(last, file) == file

\* The cursor is never set from None.
SetIfNoneNever(last, file) == last

\* if last_dst.is_none() { last_dst = Some(dst.file.to_string()) }
SetIfNone(last, file) == IF last = None THEN file ELSE last

\* The group is not cleared.
ClearedNot(d) == d

\* descr.clear()
Cleared(d) == <<>>

\* The final flush without its test.
HasFinalAlways(last) == TRUE

\* if let Some(prev_dst) = last_dst
HasFinal(last) == last # None

\* The exit status is not looked at.
SuccessAlways(status) == TRUE

\* ExitStatus::success
Success(status) == status = 0

\* The error of child.wait() is dropped and format_now returns normally.
AfterWaitErrGoOn(r) == r

\* The launch error wrapped into a tool failure.
SpawnErrorWrapped(e) == OtherError(FailedText(RUSTFMT))

\* What format_now does with an error of spawn(): `?` returns it as it is.
SpawnError(e) == OsError("spawn", e)

\* What format() does with an error of child.wait(): `?` returns it.
AfterWaitErr(r) == "done"

\* The error of await_child for a child that exited with a failure: the first
\* line of its standard error is appended when read_line returned Ok.
AwaitError(program, readOk, text) ==
  IF readOk
  THEN OtherError(WithLine(FailedText(program), Trim(ReadLine(text))))
  ELSE OtherError(FailedText(program))

\* The handle outlives the call (mem::forget, or a Child kept by the caller).
DroppedLeak(c) == c

\* The Child, or the BufReader that took its stderr, goes out of scope when
\* await_child returns: the pipe handle is closed.
Dropped(c) == [c EXCEPT !.stderr = "closed"]

Min(a, b) == IF a < b THEN a ELSE b

\* The child launched last.
Cur == children[Len(children)]
SetCur(c) == [children EXCEPT ![Len(children)] = c]

Init ==
  /\ diffs \in Inputs
  /\ pc = "loop"
  /\ i = 1
  /\ last_dst = None
  /\ descr = <<>>
  /\ ret = ""
  /\ calls = <<>>
  /\ emitted = <<>>
  /\ children = <<>>
  /\ out = <<>>
  /\ pipe = <<>>
  /\ result = NoResult
  /\ oserr = ""
  /\ diag = NoDiag

\* format() on an input whose source sides vary.
InitSrc ==
  /\ diffs \in InputsSrc
  /\ pc = "loop"
  /\ i = 1
  /\ last_dst = None
  /\ descr = <<>>
  /\ ret = ""
  /\ calls = <<>>
  /\ emitted = <<>>
  /\ children = <<>>
  /\ out = <<>>
  /\ pipe = <<>>
  /\ result = NoResult
  /\ oserr = ""
  /\ diag = NoDiag

(* ------------------------------ format() ------------------------------- *)

\* The first match arm is taken: format_now is entered for the group
\* collected so far and serializes it.
LoopFlush ==
  /\ pc = "loop"
  /\ i <= Len(diffs)
  /\ NeedFlush(last_dst, Dst.file)
  /\ calls' = Append(calls, FormatNowCall(last_dst, descr))
  /\ ret' = "arm"
  /\ pc' = "spawn"
  /\ UNCHANGED <<diffs, i, last_dst, descr, emitted, children, out, pipe,
                 result, oserr, diag>>

\* The arm `_ => ()`, the push and the is_none() test.
LoopPush ==
  /\ pc = "loop"
  /\ i <= Len(diffs)
  /\ ~NeedFlush(last_dst, Dst.file)
  /\ descr' = Append(descr, MkDescr(Dst))
  /\ emitted' = Append(emitted, MkDescr(Dst))
  /\ last_dst' = SetIfNone(last_dst, Dst.file)
  /\ i' = i + 1
  /\ UNCHANGED <<diffs, pc, ret, calls, children, out, pipe, result, oserr, diag>>

\* format_now returned Ok into the first match arm: the rest of the arm and
\* of the loop body.
ArmContinue ==
  /\ pc = "arm"
  /\ last_dst' = SetIfNone(ArmLast(last_dst, Dst.file), Dst.file)
  /\ descr' = Append(Cleared(descr), MkDescr(Dst))
  /\ emitted' = Append(emitted, MkDescr(Dst))
  /\ i' = i + 1
  /\ pc' = "loop"
  /\ UNCHANGED <<diffs, ret, calls, children, out, pipe, result, oserr, diag>>

\* After the loop: format_now for the group that remains.
FinalFlush ==
  /\ pc = "loop"
  /\ i > Len(diffs)
  /\ HasFinal(last_dst)
  /\ calls' = Append(calls, FormatNowCall(last_dst, descr))
  /\ ret' = "final"
  /\ pc' = "spawn"
  /\ UNCHANGED <<diffs, i, last_dst, descr, emitted, children, out, pipe,
                 result, oserr, diag>>

\* After the loop, no group remains: Ok(()).
ReturnEmpty ==
  /\ pc = "loop"
  /\ i > Len(diffs)
  /\ ~HasFinal(last_dst)
  /\ result' = Ok
  /\ pc' = "done"
  /\ UNCHANGED <<diffs, i, last_dst, descr, ret, calls, emitted, children, out,
                 pipe, oserr, diag>>

\* The last format_now returned Ok: Ok(()).
ReturnFinal ==
  /\ pc = "final"
  /\ result' = Ok
  /\ pc' = "done"
  /\ UNCHANGED <<diffs, i, last_dst, descr, ret, calls, emitted, children, out,
                 pipe, oserr, diag>>

(* ------------------------------ format_now ----------------------------- *)

\* Command::spawn succeeds: a child with a piped standard error.
Spawn ==
  /\ pc = "spawn"
  /\ children' = Append(children, [state |-> "started", status |-> -1, stderr |-> "open"])
  /\ out' = <<>>
  /\ pipe' = <<>>
  /\ pc' = "await"
  /\ UNCHANGED <<diffs, i, last_dst, descr, ret, calls, emitted, result, oserr, diag>>

\* Command::spawn fails: `?` returns the error of the operating system.
SpawnFail ==
  /\ pc = "spawn"
  /\ \E e \in SpawnErrors :
       /\ oserr' = e
       /\ result' = SpawnError(e)
  /\ pc' = "done"
  /\ UNCHANGED <<diffs, i, last_dst, descr, ret, calls, emitted, children, out,
                 pipe, diag>>

(* ------------------------------ the child ------------------------------ *)

\* The tool writes its diagnostics: what fits goes into the pipe, and the
\* tool blocks in write on the rest until somebody reads.
ChildWrite ==
  /\ children # <<>>
  /\ Cur.state = "started"
  /\ Cur.stderr = "open"
  /\ \E t \in StderrTexts :
       LET n == Min(Len(t), PipeCap - Len(pipe))
           rest == SubSeq(t, n + 1, Len(t))
       IN  /\ pipe' = pipe \o SubSeq(t, 1, n)
           /\ out' = rest
           /\ children' = SetCur([Cur EXCEPT !.state = IF rest = <<>> THEN "written"
                                                                     ELSE "blocked"])
  /\ UNCHANGED <<diffs, pc, i, last_dst, descr, ret, calls, emitted, result,
                 oserr, diag>>

\* The tool has written everything and exits.
ChildExit ==
  /\ children # <<>>
  /\ Cur.state = "written"
  /\ \E st \in {0, 1} :
       children' = SetCur([Cur EXCEPT !.state = "exited", !.status = st])
  /\ UNCHANGED <<diffs, pc, i, last_dst, descr, ret, calls, emitted, out, pipe,
                 result, oserr, diag>>

(* ------------------------------ await_child ---------------------------- *)

\* child.wait() fails: `?` returns the error; the Child is dropped, which
\* closes the pipe and leaves the process alone.
WaitFail ==
  /\ pc = "await"
  /\ \E e \in WaitErrors :
       /\ oserr' = e
       /\ result' = OsError("wait", e)
  /\ children' = SetCur(Dropped(Cur))
  /\ pipe' = <<>>
  /\ pc' = AfterWaitErr(ret)
  /\ UNCHANGED <<diffs, i, last_dst, descr, ret, calls, emitted, out, diag>>

\* child.wait() returns a success status: Ok(child.stdout), which format_now
\* drops together with the Child.
AwaitChildOk ==
  /\ pc = "await"
  /\ Cur.state = "exited"
  /\ Success(Cur.status)
  /\ children' = SetCur(Dropped(Cur))
  /\ pipe' = <<>>
  /\ pc' = ret
  /\ UNCHANGED <<diffs, i, last_dst, descr, ret, calls, emitted, out, result,
                 oserr, diag>>

\* child.wait() returns a failure status: read_line on the pipe (which may
\* fail), then Err.
AwaitChildFail ==
  /\ pc = "await"
  /\ Cur.state = "exited"
  /\ ~Success(Cur.status)
  /\ \E readOk \in BOOLEAN :
       /\ diag' = [read |-> IF readOk THEN "ok" ELSE "failed", text |-> pipe]
       /\ result' = AwaitError(RUSTFMT, readOk, pipe)
  /\ children' = SetCur(Dropped(Cur))
  /\ pipe' = <<>>
  /\ pc' = "done"
  /\ UNCHANGED <<diffs, i, last_dst, descr, ret, calls, emitted, out, oserr>>

Next ==
  \/ LoopFlush
  \/ LoopPush
  \/ ArmContinue
  \/ FinalFlush
  \/ ReturnEmpty
  \/ ReturnFinal
  \/ Spawn
  \/ SpawnFail
  \/ ChildWrite
  \/ ChildExit
  \/ WaitFail
  \/ AwaitChildOk
  \/ AwaitChildFail

Spec == Init /\ [][Next]_vars

SpecSrc == InitSrc /\ [][Next]_vars

\* What the scheduling guarantees: format() takes its next step, wait()
\* returns once the child has exited, and the tool writes while its writes
\* are accepted and then exits.  Failures of spawn() and wait() may happen
\* and need not.
Fairness ==
  /\ WF_vars(LoopFlush \/ LoopPush \/ ArmContinue \/ FinalFlush \/ ReturnEmpty
               \/ ReturnFinal)
  /\ WF_vars(Spawn \/ SpawnFail)
  /\ WF_vars(ChildWrite)
  /\ WF_vars(ChildExit)
  /\ WF_vars(AwaitChildOk \/ AwaitChildFail)

SpecFair == Spec /\ Fairness

(* ------------------------------ properties ---------------------------- *)

\* Destination file of the j-th pair.
DstFile(j) == diffs[j][2].file

\* Where a maximal run of equal, adjacent destination files starts.
RunStarts == {j \in 1..Len(diffs) : j = 1 \/ DstFile(j) # DstFile(j - 1)}
NumRuns == Cardinality(RunStarts)

\* The run the j-th pair belongs to, counting runs from 1.
RunOf(j) == Cardinality({r \in RunStarts : r <= j})

\* The pairs of the runs 1..k.
InRunsUpTo(k) == {j \in 1..Len(diffs) : RunOf(j) <= k}

\* File and length of the k-th run.
RunFile(k) == DstFile(CHOOSE j \in RunStarts : RunOf(j) = k)
RunLen(k) == Cardinality({j \in 1..Len(diffs) : RunOf(j) = k})

\* The descriptor lists of the calls, one after the other.
RECURSIVE Flatten(_)
Flatten(cs) == IF cs = <<>> THEN <<>> ELSE Head(cs).descrs \o Flatten(Tail(cs))

\* The descriptor a destination hunk stands for.
Expected(h) == [file |-> h.file, start |-> h.line, end |-> (h.line + h.count) % Word]

Returned == pc = "done"
Alive(c) == c.state # "exited"

\* C1: when format() returns success on a non-empty input, the tool was
\* invoked (format_now called, a process launched) once per maximal run of
\* equal adjacent destination files: A, B, A makes three invocations.
C1_InvocationsEqualRuns ==
  (Returned /\ result = Ok /\ diffs # <<>>) =>
    /\ Len(calls) = NumRuns
    /\ Len(children) = NumRuns
    /\ \A k \in 1..Len(calls) : calls[k].file = RunFile(k)

C1_Witness ==
  /\ Returned /\ result = Ok
  /\ Len(diffs) = 3
  /\ DstFile(1) = "a.rs" /\ DstFile(2) = "b.rs" /\ DstFile(3) = "a.rs"
  /\ Len(calls) = 3
  /\ calls[1].file = "a.rs" /\ calls[3].file = "a.rs"

\* C2: when format() returns success, the descriptor lists of the calls,
\* concatenated in call order, are the descriptors of the destination hunks
\* in input order, and the k-th call carries the whole k-th run.
C2_GroupsPartitionInput ==
  (Returned /\ result = Ok) =>
    /\ Flatten(calls) = [j \in 1..Len(diffs) |-> Expected(diffs[j][2])]
    /\ \A k \in 1..Len(calls) :
         /\ calls[k].file = RunFile(k)
         /\ Len(calls[k].descrs) = RunLen(k)

C2_Witness ==
  /\ Returned /\ result = Ok
  /\ Len(diffs) = 3
  /\ DstFile(1) = "a.rs" /\ DstFile(2) = "a.rs" /\ DstFile(3) = "b.rs"
  /\ Len(calls) = 2
  /\ calls[1].file = "a.rs" /\ Len(calls[1].descrs) = 2
  /\ calls[2].file = "b.rs" /\ Len(calls[2].descrs) = 1

\* The k-th launched process ran to the end and reported success.
ExitedOk(k) == children[k].state = "exited" /\ children[k].status = 0

\* C3: format() returns success only after one successful invocation per
\* run; it returns an error as soon as an invocation fails, with the calls
\* made being those of the runs 1..k, the k-th being the one that failed
\* and whose error is returned; an error is never followed by another step.
C3_FailFast ==
  /\ result.tag = "err" => Returned
  /\ Returned =>
       /\ result.tag \in {"ok", "err"}
       /\ \A k \in 1..Len(calls) : calls[k].file = RunFile(k)
       /\ result.tag = "ok" =>
            /\ Len(calls) = NumRuns
            /\ Len(children) = NumRuns
            /\ \A k \in 1..NumRuns : ExitedOk(k)
       /\ result.tag = "err" =>
            LET k == Len(calls)
            IN  /\ k \in 1..NumRuns
                /\ \A j \in 1..(k - 1) : ExitedOk(j)
                /\ \/ /\ result.kind = "spawn"
                      /\ Len(children) = k - 1
                      /\ result.code = oserr
                   \/ /\ result.kind = "wait"
                      /\ Len(children) = k
                      /\ result.code = oserr
                   \/ /\ result.kind = "other"
                      /\ Len(children) = k
                      /\ children[k].state = "exited"
                      /\ children[k].status # 0

C3_Witness ==
  /\ Returned /\ result.tag = "err" /\ result.kind = "other"
  /\ NumRuns = 3
  /\ Len(calls) = 2
  /\ ExitedOk(1)
  /\ children[2].status = 1

ToolFailed == diag.read # "none"

\* The smallest and the largest element of a non-empty set of numbers.
Least(S) == CHOOSE x \in S : \A y \in S : x <= y
Greatest(S) == CHOOSE x \in S : \A y \in S : y <= x

\* The first line of a text, without its newline.
FirstLine(t) ==
  LET nl == {p \in 1..Len(t) : t[p] = "\n"}
  IN  IF nl = {} THEN t ELSE SubSeq(t, 1, Least(nl) - 1)

\* A text without the white space around it.
Stripped(t) ==
  LET ink == {p \in 1..Len(t) : t[p] \notin {" ", "\n", "\t", "\r"}}
  IN  IF ink = {} THEN <<>> ELSE SubSeq(t, Least(ink), Greatest(ink))

\* sub occurs in t as a contiguous piece.
Contains(t, sub) ==
  \E p \in 0..(Len(t) - Len(sub)) : SubSeq(t, p + 1, p + Len(sub)) = sub

\* The message as the code writes it, and with the tool name in single quotes.
Bare == <<"p", "r", "o", "c", "e", "s", "s", " ", Backtick, "r", "u", "s", "t", "f",
          "m", "t", Backtick, " ", "f", "a", "i", "l", "e", "d">>
BareQuoted == <<"p", "r", "o", "c", "e", "s", "s", " ", "'", "r", "u", "s", "t", "f",
                "m", "t", "'", " ", "f", "a", "i", "l", "e", "d">>

\* What follows the bare message and its separator.
DiagPart(msg) == SubSeq(msg, Len(Bare) + 3, Len(msg))

\* C5: when the tool fails and its standard error is empty, or reading it
\* fails, the error is the bare tool-failure message, nothing appended.
C5_BareWhenNoDiagnostics ==
  (ToolFailed /\ (diag.read = "failed" \/ diag.text = <<>>)) => result.msg = Bare

\* C6 as stated: when the tool fails after writing diagnostics with first
\* line L, the message contains the tool name and the text of L, and nothing
\* of the later lines.
C6_ContainsFirstLine ==
  (ToolFailed /\ diag.read = "ok" /\ diag.text # <<>>) =>
    /\ Contains(result.msg, RUSTFMT)
    /\ Contains(result.msg, FirstLine(diag.text))
    /\ Contains(FirstLine(diag.text), DiagPart(result.msg))

\* C6 amended: when the tool fails after writing diagnostics with first line
\* L, the message contains the tool name and L without the white space
\* around it, and of the diagnostics nothing more: nothing of later lines.
C6_ContainsTrimmedFirstLine ==
  (ToolFailed /\ diag.read = "ok" /\ diag.text # <<>>) =>
    /\ Contains(result.msg, RUSTFMT)
    /\ Contains(result.msg, Stripped(FirstLine(diag.text)))
    /\ Contains(FirstLine(diag.text), DiagPart(result.msg))
    /\ Len(DiagPart(result.msg)) = Len(Stripped(FirstLine(diag.text)))

C6_Witness ==
  /\ ToolFailed /\ diag.read = "ok"
  /\ diag.text = <<"x", "\n", "y">>
  /\ result.msg = Bare \o <<":", " ", "x">>

\* C7: when the tool cannot be launched, format() returns the launch error
\* as the operating system gave it, with no descriptor built for a hunk of a
\* later group and no later call made.
C7_LaunchFailure ==
  (oserr \in SpawnErrors) =>
    /\ Returned
    /\ result = [tag |-> "err", kind |-> "spawn", code |-> oserr, msg |-> <<>>]
    /\ Len(children) = Len(calls) - 1
    /\ Len(emitted) = Cardinality(InRunsUpTo(Len(calls)))
    /\ Flatten(calls) = emitted

C7_Witness ==
  /\ oserr = "NotFound"
  /\ Returned /\ result.kind = "spawn"
  /\ NumRuns = 3
  /\ Len(calls) = 1
  /\ Len(emitted) < Len(diffs)

\* C8: on the empty input no format_now call is made, no process is launched
\* and format() returns success.
C8_EmptyInput ==
  diffs = <<>> =>
    /\ calls = <<>>
    /\ children = <<>>
    /\ result.tag # "err"
    /\ Returned => result = Ok

C8_Witness == diffs = <<>> /\ Returned /\ result = Ok /\ calls = <<>>

\* C9: at most one launched process is alive at any time, and when the next
\* one is about to be launched every earlier one has exited and its pipe is
\* closed.
C9_OneProcessAtATime ==
  /\ Cardinality({k \in 1..Len(children) : Alive(children[k])}) <= 1
  /\ pc = "spawn" =>
       \A k \in 1..Len(children) :
         ~Alive(children[k]) /\ children[k].stderr = "closed"

C9_Witness ==
  /\ Len(children) = 2
  /\ ~Alive(children[1])
  /\ Alive(children[2])

DigitValue(c) == CHOOSE d \in 0..9 : DigitChars[d + 1] = c
IsDigits(ts) == ts # <<>> /\ \A p \in 1..Len(ts) : \E d \in 0..9 : DigitChars[d + 1] = ts[p]
RECURSIVE NumberOf(_)
NumberOf(ts) ==
  IF Len(ts) = 1 THEN DigitValue(ts[1])
  ELSE 10 * NumberOf(SubSeq(ts, 1, Len(ts) - 1)) + DigitValue(ts[Len(ts)])

\* Position of the first token c of ts at or after p, 0 when there is none.
Find(ts, c, p) ==
  LET at == {q \in p..Len(ts) : ts[q] = c}
  IN  IF at = {} THEN 0 ELSE Least(at)

Malformed == [file |-> "?", start |-> -1, end |-> -1]

\* Reads one object {"file": f, "range": [s, e]}.
DecodeObject(o) ==
  LET head == <<"{", Quote, "file", Quote, ":", Quote>>
      mid == <<Quote, ",", Quote, "range", Quote, ":", "[">>
      comma == Find(o, ",", 15)
      n == Len(o)
  IN  IF /\ n >= 19
         /\ SubSeq(o, 1, 6) = head
         /\ SubSeq(o, 8, 14) = mid
         /\ comma > 15 /\ comma < n - 2
         /\ IsDigits(SubSeq(o, 15, comma - 1))
         /\ IsDigits(SubSeq(o, comma + 1, n - 2))
         /\ SubSeq(o, n - 1, n) = <<"]", "}">>
      THEN [file |-> o[7],
            start |-> NumberOf(SubSeq(o, 15, comma - 1)),
            end |-> NumberOf(SubSeq(o, comma + 1, n - 2))]
      ELSE Malformed

\* Reads the objects of a comma-separated list.
RECURSIVE DecodeElements(_)
DecodeElements(ts) ==
  IF ts = <<>> THEN <<>>
  ELSE LET close == Find(ts, "}", 1)
       IN  IF close = 0 THEN <<Malformed>>
           ELSE IF close = Len(ts) THEN <<DecodeObject(ts)>>
           ELSE IF ts[close + 1] # "," \/ close + 1 = Len(ts) THEN <<Malformed>>
           ELSE <<DecodeObject(SubSeq(ts, 1, close))>>
                  \o DecodeElements(SubSeq(ts, close + 2, Len(ts)))

\* Reads a JSON array of such objects.
DecodeSelector(ts) ==
  IF Len(ts) >= 2 /\ ts[1] = "[" /\ ts[Len(ts)] = "]"
  THEN DecodeElements(SubSeq(ts, 2, Len(ts) - 1))
  ELSE <<Malformed>>

\* The pairs of the k-th run, in input order, and their descriptors.
FirstOfRun(k) == CHOOSE j \in RunStarts : RunOf(j) = k
RunDescrs(k) == [n \in 1..RunLen(k) |-> Expected(diffs[FirstOfRun(k) + n - 1][2])]

\* C11: every time the tool is about to be launched, the command of that
\* call and of every call before it has the arguments --unstable-features,
\* the file of the group, --file-lines and a JSON array that holds, in input
\* order, one object {"file": path, "range": [start, end]} per hunk of the
\* group and nothing else.
C11_CommandLine ==
  pc = "spawn" =>
    \A k \in 1..Len(calls) :
      LET a == calls[k].argv
      IN  /\ Len(a) = 4
          /\ a[1] = "--unstable-features"
          /\ a[2] = RunFile(k)
          /\ a[3] = "--file-lines"
          /\ DecodeSelector(a[4]) = RunDescrs(k)

C11_Witness ==
  /\ pc = "spawn"
  /\ Len(calls) = 2
  /\ Len(children) = 1
  /\ calls[1].argv[2] = "a.rs"
  /\ calls[1].argv[4] =
       <<"[", "{", Quote, "file", Quote, ":", Quote, "a.rs", Quote, ",",
         Quote, "range", Quote, ":", "[", "1", "0", ",", "1", "3", "]", "}", ",",
         "{", Quote, "file", Quote, ":", Quote, "a.rs", Quote, ",",
         Quote, "range", Quote, ":", "[", "1", "5", ",", "0", "]", "}", "]">>
  /\ calls[2].argv[2] = "b.rs"

\* C12: the standard-error pipe of a child is open only while its invocation
\* runs: outside await_child every pipe is closed, whichever way the
\* invocation returned, and inside it only the pipe of the running child is
\* open.
C12_PipeClosedOnReturn ==
  /\ pc # "await" => \A k \in 1..Len(children) : children[k].stderr = "closed"
  /\ pc = "await" => \A k \in 1..(Len(children) - 1) : children[k].stderr = "closed"

C12_Witness ==
  /\ Returned /\ result.tag = "err" /\ result.kind = "other"
  /\ Len(children) = 2
  /\ ExitedOk(1) /\ children[1].stderr = "closed"
  /\ children[2].status = 1 /\ children[2].stderr = "closed"

\* C13: the group of every flush is non-empty, each of its descriptors names
\* the file the tool is run on, and that file is the one of the run just
\* completed, not the one of the hunk that triggered the flush.
C13_GroupHomogeneous ==
  /\ \A k \in 1..Len(calls) :
       /\ calls[k].descrs # <<>>
       /\ \A n \in 1..Len(calls[k].descrs) : calls[k].descrs[n].file = calls[k].file
       /\ calls[k].argv[2] = calls[k].file
       /\ k <= NumRuns
       /\ calls[k].file = RunFile(k)
  /\ (pc \in {"spawn", "await", "arm"} /\ ret = "arm") =>
       /\ calls[Len(calls)].file # Dst.file
       /\ calls[Len(calls)].file = DstFile(i - 1)

C13_Witness ==
  /\ pc = "await" /\ ret = "arm"
  /\ Len(calls) = 1
  /\ calls[1].file = "a.rs"
  /\ Len(calls[1].descrs) = 2
  /\ Dst.file = "b.rs"

\* Where the run of the j-th pair starts.
StartOfRunAt(j) == Greatest({r \in RunStarts : r <= j})

\* The descriptors of the run of the j-th pair, up to that pair.
RunSoFar(j) ==
  [n \in 1..(j - StartOfRunAt(j) + 1) |-> Expected(diffs[StartOfRunAt(j) + n - 1][2])]

\* Between two hunks: nothing before the first one; afterwards the cursor is
\* the file of the hunk just processed and the accumulator is its run so far.
ScanState ==
  pc = "loop" =>
    IF i = 1 THEN last_dst = None /\ descr = <<>> /\ calls = <<>>
    ELSE last_dst = DstFile(i - 1) /\ descr = RunSoFar(i - 1)

\* A step that makes a flush does so at a hunk whose file differs from the
\* one before it, before the descriptor of that hunk exists, or after the
\* last hunk; and the step taken after the last hunk is a flush.
FlushStep ==
  /\ Len(calls') > Len(calls) =>
       /\ Len(calls') = Len(calls) + 1
       /\ pc = "loop"
       /\ \/ /\ i \in 2..Len(diffs)
             /\ DstFile(i) # DstFile(i - 1)
             /\ Len(emitted') = i - 1
             /\ ret' = "arm"
          \/ /\ i = Len(diffs) + 1
             /\ diffs # <<>>
             /\ Len(emitted') = Len(diffs)
             /\ ret' = "final"
  /\ (pc = "loop" /\ i > Len(diffs) /\ diffs # <<>>) => Len(calls') = Len(calls) + 1
  /\ ret = "final" => calls' = calls

\* C14: a flush happens only at a hunk whose destination file differs from
\* the one of the hunk before it, and before the descriptor of that hunk is
\* appended; the first hunk and a hunk of the same file never flush; after
\* the last hunk exactly one more flush is made; after each hunk the cursor
\* is the file of that hunk and the accumulator holds the current run so far.
C14_FlushPoints == []ScanState /\ [][FlushStep]_vars

C14_Witness ==
  /\ pc = "loop" /\ i = 4
  /\ DstFile(1) = "a.rs" /\ DstFile(2) = "b.rs" /\ DstFile(3) = "b.rs"
  /\ Len(calls) = 1
  /\ last_dst = "b.rs"
  /\ Len(descr) = 2

\* C15: every descriptor built for a hunk whose line and count fit in usize
\* has start <= end, end being line + count computed in usize.
C15_StartNotAfterEnd ==
  \A j \in 1..Len(emitted) :
    (diffs[j][2].line \in 0..MaxWord /\ diffs[j][2].count \in 0..MaxWord) =>
      emitted[j].start <= emitted[j].end

\* The inputs of the same length with the same destination sides as d and
\* any source sides.
SourceVariants(d) ==
  {[j \in 1..Len(d) |-> <<src[j], d[j][2]>>] : src \in [1..Len(d) -> SrcSides]}

\* The runs of an input d, by its destination sides.
RunStartsIn(d) == {j \in 1..Len(d) : j = 1 \/ d[j][2].file # d[j - 1][2].file}
RunOfIn(d, j) == Cardinality({r \in RunStartsIn(d) : r <= j})
RunMembersIn(d, k) == {j \in 1..Len(d) : RunOfIn(d, j) = k}

\* File and descriptors of the k-th invocation on an input d.
InvocationIn(d, k) ==
  LET first == Least(RunMembersIn(d, k))
  IN  [file |-> d[first][2].file,
       descrs |-> [n \in 1..Cardinality(RunMembersIn(d, k)) |-> Expected(d[first + n - 1][2])]]

\* C16: every time the tool is about to be launched, and when format() has
\* returned, the invocations made are those of every input of the same length
\* with the same destination hunks and other source hunks: the same files and
\* the same descriptor lists, in the arguments of format_now and on the
\* command line.
C16_SourceSideIgnored ==
  (pc = "spawn" \/ (Returned /\ result = Ok)) =>
    \A k \in 1..Len(calls) :
      LET selector == DecodeSelector(calls[k].argv[4])
      IN  \A other \in SourceVariants(diffs) :
            /\ k <= Cardinality(RunStartsIn(other))
            /\ LET inv == InvocationIn(other, k)
               IN  /\ calls[k].file = inv.file
                   /\ calls[k].descrs = inv.descrs
                   /\ calls[k].argv[2] = inv.file
                   /\ selector = inv.descrs
            /\ (Returned /\ result = Ok) => Len(calls) = Cardinality(RunStartsIn(other))

C16_Witness ==
  /\ Returned /\ result = Ok
  /\ Len(diffs) = 3
  /\ diffs[1][1] # diffs[2][1]
  /\ diffs[1][1].file = "b.rs" /\ DstFile(1) = "a.rs"
  /\ DstFile(2) = "a.rs" /\ DstFile(3) = "b.rs"
  /\ diffs[3][1].file = "a.rs"
  /\ Len(calls) = 2

\* C17: every invocation returns: once format_now waits for its child, with
\* a tool that writes while its writes are accepted and then exits, it
\* eventually stops waiting, however much the tool writes.
C17_InvocationReturns == (pc = "await") ~> (pc # "await")

=============================================================================
